---------------------------- MODULE Spec2Model ----------------------------
(* A model of dsforty.py: the driver that scans pages on an Epson DS-40     *)
(* over bulk USB transfers.  The main thread of the program is a sequence   *)
(* of writes to and reads from the device; the device is the environment    *)
(* and may answer every read with any reply, or with a USB error.           *)
(*                                                                          *)
(* Bytes are one-character strings ("x06" and "x15" stand for the bytes     *)
(* 0x06 and 0x15), byte strings are sequences of them.                      *)
EXTENDS Integers, Sequences, FiniteSets, TLC

----------------------------------------------------------------------------
(* Bounds of the model (budgets of the whole process).                      *)

MaxCtrl == 2      \* USB errors inside the control-mode retry loop
MaxProbes == 2    \* TRDT probes
MaxImg == 4       \* IMG requests
MaxData == 2      \* chunk-data reads that return bytes
MaxPages == 2     \* pages of a continuous run

----------------------------------------------------------------------------
(* Program constants.                                                       *)

MAX_W_TENTHS == 85   \* MAX_W = 8.5 inches, in tenths of an inch
MAX_H == 14
FIRST_INDEX == 46
IN_BUF_SIZE == 1048576

----------------------------------------------------------------------------
(* Byte strings of the protocol.                                            *)

ACK == <<"x06">>
IMG_PREFIX == <<"I","M","G"," ","x">>
ERR_ADF_PE == <<"#","e","r","r","A","D","F"," ","P","E">>
PENI == <<"#","p","e","n","i">>
PAR_OK == <<"#","p","a","r","O","K">>

(* Replies the device may give.                                             *)
Nak == <<"x15">>
ImgNone == <<"I","M","G"," ","x","0","0","0","0","0","0","0">>
ImgTwo == <<"I","M","G"," ","x","0","0","0","0","0","0","2">>
ImgThreeH7 == <<"I","M","G"," ","x","0","0","0","0","0","0","3","#","p","e","n","i","0","0","0","2","5","5","0","i","0","0","0","0","0","0","7">>
ImgKiloH == <<"I","M","G"," ","x","0","0","0","0","3","E","8","#","p","e","n","i","0","0","0","2","5","5","0","i","0","0","0","2","5","5","0">>
ImgEnd == <<"I","M","G"," ","x","0","0","0","0","0","0","0","#","e","r","r","A","D","F"," ","P","E">>
ImgEndH == <<"I","M","G"," ","x","0","0","0","0","0","0","2","#","p","e","n","i","0","0","0","2","5","5","0","i","0","0","0","3","3","0","0","#","e","r","r","A","D","F"," ","P","E">>
NoPaper == <<"T","R","D","T","x","0","0","0","0","0","0","0","#","e","r","r","A","D","F"," ","P","E">>
BarePeni == <<"#","p","e","n","i","0","0","0","2","5","5","0","i","0","0","0","0","0","0","9">>
ImgCutH == <<"I","M","G"," ","x","0","0","0","0","0","0","1","#","p","e","n","i","0","0","0","2","5","5","0","i">>

Replies ==
    { ACK, Nak, PAR_OK, ImgNone, ImgTwo, ImgThreeH7, ImgKiloH,
      ImgEnd, ImgEndH, NoPaper, BarePeni, ImgCutH }

(* Lengths of the chunk-data reads the device may answer with, and the byte *)
(* a read of a page is filled with.                                         *)
DataLens == {0, 1, 2, 1000}
FillBytes == << <<"a", "b", "c">>, <<"p", "q", "r">> >>

DataBytes(p, n) ==
    [k \in 1..n |-> FillBytes[(p % 2) + 1][IF n > 2 THEN 3 ELSE n]]

----------------------------------------------------------------------------
(* bytes operations of Python, as dsforty.py uses them.                     *)

Min(a, b) == IF a < b THEN a ELSE b

\* s[a:b] for 0 <= a <= b: the slice is clamped to the length of s
Slice(s, a, b) == SubSeq(s, a + 1, Min(b, Len(s)))

StartsWith(s, prefix) ==
    /\ Len(prefix) <= Len(s)
    /\ SubSeq(s, 1, Len(prefix)) = prefix

\* s.find(sub): the lowest 0-based index of sub in s, -1 when absent
Find(s, sub) ==
    LET hits == { k \in 0..(Len(s) - Len(sub)) :
                      SubSeq(s, k + 1, k + Len(sub)) = sub }
    IN  IF hits = {} THEN -1
        ELSE CHOOSE k \in hits : \A j \in hits : k <= j

\* sub in s
Contains(s, sub) == Find(s, sub) >= 0

Digits == <<"0","1","2","3","4","5","6","7","8","9","A","B","C","D","E","F">>
LowerDigits == <<"0","1","2","3","4","5","6","7","8","9","a","b","c","d","e","f">>

DigitVal(c, base) ==
    LET hits == { k \in 0..(base - 1) : Digits[k + 1] = c \/ LowerDigits[k + 1] = c }
    IN  IF hits = {} THEN -1 ELSE CHOOSE k \in hits : TRUE

RECURSIVE DigitsValue(_, _)
DigitsValue(s, base) ==
    IF s = <<>> THEN 0
    ELSE DigitsValue(SubSeq(s, 1, Len(s) - 1), base) * base + DigitVal(s[Len(s)], base)

ValueError == -1

\* int(s, base) for a byte string without sign, blanks or underscores:
\* ValueError when s is empty or holds a byte that is no digit of the base
ParseInt(s, base) ==
    IF s = <<>> \/ \E k \in 1..Len(s) : DigitVal(s[k], base) < 0
    THEN ValueError
    ELSE DigitsValue(s, base)


----------------------------------------------------------------------------
(* The parameter block of setup_scanner.  The bytes of the gamma tables are *)
(* written "x00" .. "xFF".                                                  *)

\* the digits of n >= 0 in the base, most significant first
RECURSIVE DigitsOf(_, _)
DigitsOf(n, base) ==
    IF n < base THEN <<Digits[n + 1]>>
    ELSE DigitsOf(n \div base, base) \o <<Digits[(n % base) + 1]>>

\* %0wd and %0wX of a number n >= 0: zeros up to the width w, never cut
ZeroPad(s, w) == [k \in 1..(w - Len(s)) |-> "0"] \o s
FormatDec(n, w) == ZeroPad(DigitsOf(n, 10), w)
FormatHex(n, w) == ZeroPad(DigitsOf(n, 16), w)

\* CLRS = {'g': b'M008', 'c': b'C024'}
CLRS == [g |-> <<"M","0","0","8">>, c |-> <<"C","0","2","4">>]

ByteName(b) == "x" \o Digits[(b \div 16) + 1] \o Digits[(b % 16) + 1]

\* bytes(range(256))
IdentityTable == [k \in 1..256 |-> ByteName(k - 1)]

\* b'#GMT' + gmt + b' h100', then the table
GammaTable(gmt) == <<"#","G","M","T">> \o gmt \o <<" ","h","1","0","0">> \o IdentityTable

\* params = b''.join(params)
BuildParams(a, w, h) ==
    <<"#","A","D","F","#","C","O","L">>
    \o CLRS[a.color]
    \o <<"#","F","M","T","J","P","G"," ","#","J","P","G","d">> \o FormatDec(a.quality, 3)
    \o <<"#","G","M","M","U","G","1","8","#","C","M","X","U","N","I","T">>
    \o <<"#","R","S","M","i">> \o FormatDec(a.res, 7)
    \o <<"#","R","S","S","i">> \o FormatDec(a.res, 7)
    \o <<"#","A","C","Q","i">> \o FormatDec(0, 7) \o <<"i">> \o FormatDec(0, 7)
    \o <<"i">> \o FormatDec(w, 7) \o <<"i">> \o FormatDec(h, 7)
    \o <<"#","P","A","G","d","0","0","0","#","B","S","Z","i">> \o FormatDec(IN_BUF_SIZE, 7)
    \o GammaTable(<<"R","E","D">>) \o GammaTable(<<"G","R","N">>) \o GammaTable(<<"B","L","U">>)

PARAX == <<"P","A","R","A","x">>

\* a header that writes the length in decimal
HeaderOfDecimal(prm) == PARAX \o FormatDec(Len(prm), 7)

\* b'PARAx%07X' % len(params)
HeaderOf(prm) == PARAX \o FormatHex(Len(prm), 7)

----------------------------------------------------------------------------
(* io.BytesIO: the bytes written so far and the stream position.            *)

NewBytesIO == [data |-> <<>>, pos |-> 0]

\* a write that does not advance the position
BytesIOWriteInPlace(buf, d) ==
    [data |-> SubSeq(buf.data, 1, buf.pos) \o d
                \o SubSeq(buf.data, buf.pos + Len(d) + 1, Len(buf.data)),
     pos  |-> buf.pos]

\* write(d): d overwrites from the position on and extends the buffer
BytesIOWrite(buf, d) ==
    [data |-> SubSeq(buf.data, 1, buf.pos) \o d
                \o SubSeq(buf.data, buf.pos + Len(d) + 1, Len(buf.data)),
     pos  |-> buf.pos + Len(d)]

BytesIOSeek(buf, p) == [buf EXCEPT !.pos = p]

\* read(): the bytes from the position to the end (what Image.open decodes)
BytesIORead(buf) == SubSeq(buf.data, buf.pos + 1, Len(buf.data))

----------------------------------------------------------------------------
(* The decisions of setup_scanner and run_scan on a reply.                  *)

None == <<>>
Some(v) == <<v>>

\* a width that truncates MAX_W before the product
WidthOfWholeInches(res) == res * (MAX_W_TENTHS \div 10)

\* int(res * MAX_W), int(res * MAX_H)
WidthOf(res) == (res * MAX_W_TENTHS) \div 10
HeightOf(res) == res * MAX_H

\* a handshake that only fails on the NAK byte
IsAckNotNak(r) == r # Nak

\* self.read() != b'\x06' is false
IsAck(r) == r = ACK

\* a setup that takes any reply but a NAK for an acceptance
ParamsAcceptedUnlessNak(r) == r # Nak

\* b'#parOK' in self.read()
ParamsAccepted(r) == Contains(r, PAR_OK)

\* a paper-wait loop that looks for the error at the start of the reply
NoPaperYetAtStart(r) == StartsWith(r, ERR_ADF_PE)

\* a paper-wait loop that looks for another error code
NoPaperYetOtherCode(r) == Contains(r, <<"#","e","r","r","A","D","F"," ","P","J">>)

\* b'#errADF PE' in ret, of the paper-wait loop
NoPaperYet(r) == Contains(r, ERR_ADF_PE)

\* a scan loop that starts from a height of 0
InitialHeightZero == Some(0)

\* final_height = None, before the scan loop
InitialHeight == None

\* a scan loop that looks for the height marker before the end of page
HandleImgReplyMarkerFirst(r, fh) ==
    LET pen_idx == Find(r, PENI)
        h == ParseInt(Slice(r, pen_idx + 13, pen_idx + 20), 10)
        n == ParseInt(Slice(r, 5, 12), 16)
        fh2 == IF pen_idx >= 0 THEN Some(h) ELSE fh
    IN  IF ~StartsWith(r, IMG_PREFIX) THEN
            [next |-> "bad_ack", fh |-> fh, dl |-> 0]
        ELSE IF pen_idx >= 0 /\ h = ValueError THEN
            [next |-> "value_error", fh |-> fh, dl |-> 0]
        ELSE IF Contains(r, ERR_ADF_PE) THEN
            [next |-> "end_of_page", fh |-> fh2, dl |-> 0]
        ELSE IF n = ValueError THEN
            [next |-> "value_error", fh |-> fh2, dl |-> 0]
        ELSE
            [next |-> "chunk", fh |-> fh2, dl |-> n]

\* a scan loop that looks for the end of page before the prefix
HandleImgReplyEndFirst(r, fh) ==
    IF Contains(r, ERR_ADF_PE) THEN
        [next |-> "end_of_page", fh |-> fh, dl |-> 0]
    ELSE IF ~StartsWith(r, IMG_PREFIX) THEN
        [next |-> "bad_ack", fh |-> fh, dl |-> 0]
    ELSE
        LET pen_idx == Find(r, PENI)
            h == ParseInt(Slice(r, pen_idx + 13, pen_idx + 20), 10)
            n == ParseInt(Slice(r, 5, 12), 16)
        IN  IF pen_idx >= 0 /\ h = ValueError THEN
                [next |-> "value_error", fh |-> fh, dl |-> 0]
            ELSE IF n = ValueError THEN
                [next |-> "value_error",
                 fh |-> IF pen_idx >= 0 THEN Some(h) ELSE fh, dl |-> 0]
            ELSE
                [next |-> "chunk",
                 fh |-> IF pen_idx >= 0 THEN Some(h) ELSE fh, dl |-> n]

\* The body of the scan loop after ret = self.read(): what the loop does
\* next, the final height and the chunk length it leaves.
HandleImgReply(r, fh) ==
    IF ~StartsWith(r, IMG_PREFIX) THEN
        [next |-> "bad_ack", fh |-> fh, dl |-> 0]
    ELSE IF Contains(r, ERR_ADF_PE) THEN
        [next |-> "end_of_page", fh |-> fh, dl |-> 0]
    ELSE
        LET pen_idx == Find(r, PENI)
            h == ParseInt(Slice(r, pen_idx + 13, pen_idx + 20), 10)
            n == ParseInt(Slice(r, 5, 12), 16)
        IN  IF pen_idx >= 0 /\ h = ValueError THEN
                [next |-> "value_error", fh |-> fh, dl |-> 0]
            ELSE IF n = ValueError THEN
                [next |-> "value_error",
                 fh |-> IF pen_idx >= 0 THEN Some(h) ELSE fh, dl |-> 0]
            ELSE
                [next |-> "chunk",
                 fh |-> IF pen_idx >= 0 THEN Some(h) ELSE fh, dl |-> n]

\* a loop that reads once before it looks at the length
MoreDataOrNone(n) == n >= 0

\* while dl > 0
MoreData(n) == n > 0

\* img.crop((0, 0, self.width, final_height))
CropBox(w, fh) == <<0, 0, w, fh>>

----------------------------------------------------------------------------
VARIABLES
    args,          \* the parsed command line: res, color, quality,
                   \* continuous, no_crop
    pc,            \* the position of the main thread
    i,             \* the page counter of the continuous loop
    filename,      \* the number formatted into the file name of run_scan
    page,          \* the number of calls of run_scan so far
    width, height, \* self.width, self.height
    tmpout,        \* the io.BytesIO of run_scan
    ret,           \* the reply read last
    final_height,  \* None or Some(height)
    dl,            \* the bytes of the chunk still to read
    exitStatus,    \* None while the process runs, Some(status) after
    err,           \* the diagnostic the process ended with
    saved,         \* the numbers of the files saved, in order
    last,          \* the last operation of the main thread on the device
    sent,          \* the commands written (or attempted) in this page
    used,          \* the iterations of each loop counted against the bounds
    resets,        \* the background reset thread of each page
    params,        \* the parameter block of setup_scanner
    frame,         \* the writes of the parameter block not yet answered
    idle,          \* the parity of the chunk-data reads in a row without bytes
    obs            \* what the device did and what was saved in this page

vars == <<args, pc, i, filename, page, width, height, tmpout, ret,
          final_height, dl, exitStatus, err, saved, last, sent, used,
          resets, params, frame, idle, obs>>

NewObs ==
    [declared |-> 0,      \* sum of the lengths declared by non-final IMG replies
     owed     |-> 0,      \* bytes of the last declared chunk not yet supplied
     exact    |-> TRUE,   \* no chunk-data read supplied more than was owed
     marker   |-> None,   \* the last non-final IMG reply holding "#peni"
     peni     |-> FALSE,  \* some IMG reply held "#peni"
     waited   |-> FALSE,  \* some TRDT reply held "#errADF PE"
     final    |-> None,   \* the end-of-page reply
     image    |-> None]   \* the image saved for this page

\* no operation on the device yet in this page
NoEvent == [op |-> "none", what |-> "", ok |-> TRUE, cmd |-> ""]

\* self.write, self.read, self.dev.reset: what the main thread did last,
\* and the command it wrote last
Did(op, what, ok) ==
    /\ last' = [op |-> op, what |-> what, ok |-> ok,
                cmd |-> IF op = "write" THEN what ELSE last.cmd]
    /\ sent' = IF op = "write" THEN sent \cup {what} ELSE sent

NoneUsed == [ctrl |-> 0, probes |-> 0, img |-> 0, data |-> 0]

\* The command lines of the model: --res is 300 or 600, --color g or c,
\* --quality a number, --continuous and --no-crop are given or not
Configs ==
    { [res |-> 300, color |-> "c", quality |-> 100, continuous |-> FALSE,
       no_crop |-> TRUE],
      [res |-> 600, color |-> "g", quality |-> 1, continuous |-> FALSE,
       no_crop |-> FALSE],
      [res |-> 300, color |-> "g", quality |-> 75, continuous |-> TRUE,
       no_crop |-> FALSE],
      [res |-> 600, color |-> "c", quality |-> 9, continuous |-> TRUE,
       no_crop |-> TRUE] }

Init ==
    /\ args \in Configs
    /\ pc = "find"
    /\ i = 0
    /\ filename = 0
    /\ page = 0
    /\ width = 0
    /\ height = 0
    /\ tmpout = NewBytesIO
    /\ ret = <<>>
    /\ final_height = None
    /\ dl = 0
    /\ exitStatus = None
    /\ err = "none"
    /\ saved = <<>>
    /\ last = NoEvent
    /\ sent = {}
    /\ used = NoneUsed
    /\ resets = <<>>
    /\ params = <<>>
    /\ frame = <<>>
    /\ idle = 0
    /\ obs = NewObs

\* exit(status), or the end of the process by an uncaught exception
Exit(status, e) ==
    /\ pc' = "exited"
    /\ exitStatus' = Some(status)
    /\ err' = e

\* an exception that is caught where it is raised, and the operation tried again
RaiseSwallowed(e) == UNCHANGED <<pc, exitStatus, err>>

\* an exception nothing catches ends the process with status 1
Raise(e) == Exit(1, e)

----------------------------------------------------------------------------
(* __init__ and the page loop.                                              *)

\* usb.core.find: no device is reported and __init__ returns, so the
\* process ends normally
FindDevice ==
    /\ pc = "find"
    /\ \/ Exit(0, "DeviceNotFound")
       \/ /\ pc' = "set_configuration"
          /\ UNCHANGED <<exitStatus, err>>
    /\ UNCHANGED <<args, i, filename, page, width, height, tmpout, ret,
                   final_height, dl, saved, last, sent, used, resets, obs>>
    /\ UNCHANGED <<params, frame, idle>>

SetConfiguration ==
    /\ pc = "set_configuration"
    /\ \/ /\ Did("set_configuration", "CONFIG", TRUE)
          /\ width' = WidthOf(args.res)
          /\ height' = HeightOf(args.res)
          /\ pc' = "dispatch"
          /\ UNCHANGED <<exitStatus, err>>
       \/ /\ Did("set_configuration", "CONFIG", FALSE)
          /\ Raise("USBError")
          /\ UNCHANGED <<width, height>>
    /\ UNCHANGED <<args, i, filename, page, tmpout, ret, final_height, dl,
                   saved, used, resets, obs>>
    /\ UNCHANGED <<params, frame, idle>>

\* a run_scan that calls setup_scanner for the first page only
CallRunScanSetupOnce(n) ==
    /\ filename' = n
    /\ page' = page + 1
    /\ obs' = NewObs
    /\ last' = NoEvent
    /\ sent' = {}
    /\ pc' = IF page = 0 THEN "reset" ELSE "trdt_write"

\* the call of run_scan: a new page, whose history starts empty
CallRunScan(n) ==
    /\ filename' = n
    /\ page' = page + 1
    /\ obs' = NewObs
    /\ last' = NoEvent
    /\ sent' = {}
    /\ pc' = "reset"

\* if not self.args.continuous: self.run_scan(self.args.filename % 1)
Dispatch ==
    /\ pc = "dispatch"
    /\ IF args.continuous
       THEN /\ i' = FIRST_INDEX
            /\ pc' = "loop"
            /\ UNCHANGED <<filename, page, obs, last, sent>>
       ELSE /\ CallRunScan(1)
            /\ UNCHANGED i
    /\ UNCHANGED <<args, width, height, tmpout, ret, final_height, dl,
                   exitStatus, err, saved, used, resets>>
    /\ UNCHANGED <<params, frame, idle>>

\* while self.args.continuous: i += 1; self.run_scan(self.args.filename % i)
Loop ==
    /\ pc = "loop"
    /\ page < MaxPages
    /\ i' = i + 1
    /\ CallRunScan(i + 1)
    /\ UNCHANGED <<args, width, height, tmpout, ret, final_height, dl,
                   exitStatus, err, saved, used, resets>>
    /\ UNCHANGED <<params, frame, idle>>

\* run_scan has returned
Returned ==
    /\ pc = "returned"
    /\ IF args.continuous
       THEN /\ pc' = "loop"
            /\ UNCHANGED <<exitStatus, err>>
       ELSE Exit(0, "none")
    /\ UNCHANGED <<args, i, filename, page, width, height, tmpout, ret,
                   final_height, dl, saved, last, sent, used, resets, obs>>
    /\ UNCHANGED <<params, frame, idle>>

----------------------------------------------------------------------------
(* setup_scanner.                                                           *)

\* self.dev.reset()
Reset ==
    /\ pc = "reset"
    /\ \/ /\ Did("reset", "RESET", TRUE)
          /\ pc' = "ctrl_write"
          /\ UNCHANGED <<exitStatus, err>>
       \/ /\ Did("reset", "RESET", FALSE)
          /\ Raise("USBError")
    /\ UNCHANGED <<args, i, filename, page, width, height, tmpout, ret,
                   final_height, dl, saved, used, resets, obs>>
    /\ UNCHANGED <<params, frame, idle>>

\* self.write(b'\x1c\x58') inside try: a USBError starts the loop again
CtrlWrite ==
    /\ pc = "ctrl_write"
    /\ \/ /\ Did("write", "CTRL", TRUE)
          /\ pc' = "ctrl_read"
          /\ UNCHANGED used
       \/ /\ used.ctrl < MaxCtrl
          /\ used' = [used EXCEPT !.ctrl = @ + 1]
          /\ Did("write", "CTRL", FALSE)
          /\ pc' = "ctrl_write"
    /\ UNCHANGED <<args, i, filename, page, width, height, tmpout, ret,
                   final_height, dl, exitStatus, err, saved, resets, obs>>
    /\ UNCHANGED <<params, frame, idle>>

\* a retry loop whose try covers the write alone
CtrlReadUncaught ==
    /\ pc = "ctrl_read"
    /\ \/ \E r \in Replies :
            /\ Did("read", "REPLY", TRUE)
            /\ ret' = r
            /\ IF IsAck(r)
               THEN /\ pc' = "para_header"
                    /\ used' = [used EXCEPT !.ctrl = 0]
                    /\ UNCHANGED <<exitStatus, err>>
               ELSE /\ Exit(1, "HandshakeRejected")
                    /\ UNCHANGED used
       \/ /\ used.ctrl < MaxCtrl
          /\ used' = [used EXCEPT !.ctrl = @ + 1]
          /\ Did("read", "REPLY", FALSE)
          /\ Raise("USBError")
          /\ UNCHANGED ret
    /\ UNCHANGED <<args, i, filename, page, width, height, tmpout,
                   final_height, dl, saved, resets, obs>>
    /\ UNCHANGED <<params, frame, idle>>

\* if self.read() != b'\x06': exit(1), inside the same try
CtrlRead ==
    /\ pc = "ctrl_read"
    /\ \/ \E r \in Replies :
            /\ Did("read", "REPLY", TRUE)
            /\ ret' = r
            /\ IF IsAck(r)
               THEN /\ pc' = "para_header"
                    /\ used' = [used EXCEPT !.ctrl = 0]
                    /\ UNCHANGED <<exitStatus, err>>
               ELSE /\ Exit(1, "HandshakeRejected")
                    /\ UNCHANGED used
       \/ /\ used.ctrl < MaxCtrl
          /\ used' = [used EXCEPT !.ctrl = @ + 1]
          /\ Did("read", "REPLY", FALSE)
          /\ pc' = "ctrl_write"
          /\ UNCHANGED <<ret, exitStatus, err>>
    /\ UNCHANGED <<args, i, filename, page, width, height, tmpout,
                   final_height, dl, saved, resets, obs>>
    /\ UNCHANGED <<params, frame, idle>>

\* params = b''.join(params); self.write(b'PARAx%07X' % len(params))
ParaHeaderWrite ==
    /\ pc = "para_header"
    /\ params' = BuildParams(args, width, height)
    /\ \/ /\ Did("write", "PARA_HEADER", TRUE)
          /\ frame' = <<HeaderOf(params')>>
          /\ pc' = "para_block"
          /\ UNCHANGED <<exitStatus, err>>
       \/ /\ Did("write", "PARA_HEADER", FALSE)
          /\ Raise("USBError")
          /\ UNCHANGED frame
    /\ UNCHANGED <<args, i, filename, page, width, height, tmpout, ret,
                   final_height, dl, saved, used, resets, obs>>
    /\ UNCHANGED idle

\* self.write(params)
ParaBlockWrite ==
    /\ pc = "para_block"
    /\ \/ /\ Did("write", "PARA_BLOCK", TRUE)
          /\ frame' = Append(frame, params)
          /\ pc' = "para_read"
          /\ UNCHANGED <<exitStatus, err>>
       \/ /\ Did("write", "PARA_BLOCK", FALSE)
          /\ Raise("USBError")
          /\ UNCHANGED frame
    /\ UNCHANGED <<args, i, filename, page, width, height, tmpout, ret,
                   final_height, dl, saved, used, resets, obs>>
    /\ UNCHANGED <<params, idle>>

\* if b'#parOK' not in self.read(): exit(-1); then, back in run_scan,
\* tmpout = io.BytesIO()
ParaRead ==
    /\ pc = "para_read"
    /\ \/ \E r \in Replies :
            /\ Did("read", "REPLY", TRUE)
            /\ ret' = r
            /\ IF ParamsAccepted(r)
               THEN /\ tmpout' = NewBytesIO
                    /\ params' = <<>>
                    /\ frame' = <<>>
                    /\ pc' = "trdt_write"
                    /\ UNCHANGED <<exitStatus, err>>
               ELSE /\ Exit(255, "ParamsRejected")
                    /\ UNCHANGED <<tmpout, params, frame>>
       \/ /\ Did("read", "REPLY", FALSE)
          /\ Raise("USBError")
          /\ UNCHANGED <<ret, tmpout, params, frame>>
    /\ UNCHANGED <<args, i, filename, page, width, height, final_height, dl,
                   saved, used, resets, obs>>
    /\ UNCHANGED idle

----------------------------------------------------------------------------
(* run_scan.                                                                *)

\* self.write(b'TRDTx0000000')
TrdtWrite ==
    /\ pc = "trdt_write"
    /\ used.probes < MaxProbes
    /\ used' = [used EXCEPT !.probes = @ + 1]
    /\ \/ /\ Did("write", "TRDT", TRUE)
          /\ pc' = "trdt_read"
          /\ UNCHANGED <<exitStatus, err>>
       \/ /\ Did("write", "TRDT", FALSE)
          /\ Raise("USBError")
    /\ UNCHANGED <<args, i, filename, page, width, height, tmpout, ret,
                   final_height, dl, saved, resets, obs>>
    /\ UNCHANGED <<params, frame, idle>>

\* ret = self.read(); if b'#errADF PE' in ret: continue; else break, and
\* final_height = None
TrdtRead ==
    /\ pc = "trdt_read"
    /\ \/ \E r \in Replies :
            /\ Did("read", "REPLY", TRUE)
            /\ ret' = r
            /\ IF NoPaperYet(r)
               THEN /\ pc' = "trdt_write"
                    /\ obs' = [obs EXCEPT !.waited = TRUE]
                    /\ UNCHANGED <<final_height, used>>
               ELSE /\ pc' = "img_write"
                    /\ final_height' = InitialHeight
                    /\ used' = [used EXCEPT !.probes = 0]
                    /\ UNCHANGED obs
            /\ UNCHANGED <<exitStatus, err>>
       \/ /\ Did("read", "REPLY", FALSE)
          /\ Raise("USBError")
          /\ UNCHANGED <<ret, final_height, used, obs>>
    /\ UNCHANGED <<args, i, filename, page, width, height, tmpout, dl,
                   saved, resets>>
    /\ UNCHANGED <<params, frame, idle>>

\* self.write(b'IMG x0000000')
ImgWrite ==
    /\ pc = "img_write"
    /\ used.img < MaxImg
    /\ used' = [used EXCEPT !.img = @ + 1]
    /\ \/ /\ Did("write", "IMG", TRUE)
          /\ pc' = "img_read"
          /\ UNCHANGED <<exitStatus, err>>
       \/ /\ Did("write", "IMG", FALSE)
          /\ Raise("USBError")
    /\ UNCHANGED <<args, i, filename, page, width, height, tmpout, ret,
                   final_height, dl, saved, resets, obs>>
    /\ UNCHANGED <<params, frame, idle>>

\* what the page's history records of a reply to an IMG request
ObserveImgReply(o, r) ==
    LET final == Contains(r, ERR_ADF_PE)
        n == ParseInt(Slice(r, 5, 12), 16)
        len == IF final \/ n = ValueError THEN 0 ELSE n
    IN  [o EXCEPT !.declared = @ + len,
                  !.owed = IF final THEN @ ELSE len,
                  !.marker = IF ~final /\ Contains(r, PENI) THEN Some(r) ELSE @,
                  !.peni = @ \/ Contains(r, PENI),
                  !.final = IF final THEN Some(r) ELSE @]

\* ret = self.read() and the checks of the scan loop
ImgRead ==
    /\ pc = "img_read"
    /\ \/ \E r \in Replies :
            LET out == HandleImgReply(r, final_height) IN
            /\ Did("read", "REPLY", TRUE)
            /\ ret' = r
            /\ obs' = ObserveImgReply(obs, r)
            /\ final_height' = out.fh
            /\ CASE out.next = "bad_ack" ->
                      /\ Exit(1, "BadImageAck")
                      /\ UNCHANGED dl
                 [] out.next = "value_error" ->
                      /\ Raise("ValueError")
                      /\ UNCHANGED dl
                 [] out.next = "end_of_page" ->
                      /\ pc' = "start_reset_thread"
                      /\ UNCHANGED <<dl, exitStatus, err>>
                 [] out.next = "chunk" ->
                      /\ dl' = out.dl
                      /\ pc' = IF MoreData(out.dl) THEN "data_read" ELSE "img_write"
                      /\ UNCHANGED <<exitStatus, err>>
       \/ /\ Did("read", "REPLY", FALSE)
          /\ Raise("USBError")
          /\ UNCHANGED <<ret, final_height, dl, obs>>
    /\ UNCHANGED <<args, i, filename, page, width, height, tmpout, saved, used, resets>>
    /\ UNCHANGED <<params, frame, idle>>

\* d = self.read(); dl -= len(d); tmpout.write(d)
ReadChunkData ==
    /\ pc = "data_read"
    /\ \/ \E n \in DataLens :
            LET d == DataBytes(page, n) IN
            /\ n > 0 => used.data < MaxData
            /\ used' = IF n > 0 THEN [used EXCEPT !.data = @ + 1] ELSE used
            /\ idle' = IF n > 0 THEN 0 ELSE 1 - idle
            /\ Did("read", "DATA", TRUE)
            /\ dl' = dl - Len(d)
            /\ tmpout' = BytesIOWrite(tmpout, d)
            /\ obs' = [obs EXCEPT !.exact = @ /\ Len(d) <= obs.owed,
                                  !.owed = @ - Len(d)]
            /\ pc' = IF MoreData(dl - Len(d)) THEN "data_read" ELSE "img_write"
            /\ UNCHANGED <<exitStatus, err>>
       \/ /\ used.data < MaxData
          /\ used' = [used EXCEPT !.data = @ + 1]
          /\ idle' = 0
          /\ Did("read", "DATA", FALSE)
          /\ Raise("USBError")
          /\ UNCHANGED <<dl, tmpout, obs>>
    /\ UNCHANGED <<args, i, filename, page, width, height, ret, final_height,
                   saved, resets>>
    /\ UNCHANGED <<params, frame>>

\* a thread that is made and never started
StartNoResetThread ==
    /\ pc = "start_reset_thread"
    /\ tmpout' = BytesIOSeek(tmpout, 0)
    /\ pc' = "check_height"
    /\ UNCHANGED <<args, i, filename, page, width, height, ret, final_height,
                   dl, exitStatus, err, saved, last, sent, used, resets, obs>>
    /\ UNCHANGED <<params, frame, idle>>

\* threading.Thread(target=self.dev.reset, daemon=True).start();
\* tmpout.flush(); tmpout.seek(0)
StartResetThread ==
    /\ pc = "start_reset_thread"
    /\ resets' = Append(resets, "started")
    /\ tmpout' = BytesIOSeek(tmpout, 0)
    /\ pc' = "check_height"
    /\ UNCHANGED <<args, i, filename, page, width, height, ret, final_height,
                   dl, exitStatus, err, saved, last, sent, used, obs>>
    /\ UNCHANGED <<params, frame, idle>>

\* final_height is None
HeightMissing(fh) == fh = None

\* if final_height is None: exit(1)
CheckHeight ==
    /\ pc = "check_height"
    /\ IF HeightMissing(final_height)
       THEN Exit(1, "MissingHeight")
       ELSE /\ pc' = "crop"
            /\ UNCHANGED <<exitStatus, err>>
    /\ UNCHANGED <<args, i, filename, page, width, height, tmpout, ret,
                   final_height, dl, saved, last, sent, used, resets, obs>>
    /\ UNCHANGED <<params, frame, idle>>

\* The image run_scan saves: Image.open(tmpout), crop, save(filename)
SavedImage(file, w, fh, buf) ==
    [file |-> file, box |-> CropBox(w, fh), data |-> BytesIORead(buf)]

\* a crop that waits for the reset thread of the page: thread.join()
CropAfterJoin ==
    /\ pc = "crop"
    /\ resets[page] \in {"done", "failed"}
    /\ \/ /\ BytesIORead(tmpout) # <<>>
          /\ saved' = Append(saved, filename)
          /\ obs' = [obs EXCEPT !.image =
                        Some([file |-> filename,
                              box |-> <<0, 0, width, final_height[1]>>,
                              data |-> BytesIORead(tmpout)])]
          /\ pc' = "returned"
          /\ tmpout' = NewBytesIO
          /\ ret' = <<>>
          /\ final_height' = None
          /\ dl' = 0
          /\ UNCHANGED <<exitStatus, err>>
       \/ /\ Raise("CodecError")
          /\ UNCHANGED <<saved, obs, tmpout, ret, final_height, dl>>
    /\ UNCHANGED <<args, i, filename, page, width, height, last, sent, used,
                   resets>>
    /\ UNCHANGED <<params, frame, idle>>

\* img = Image.open(tmpout); img = img.crop(...); img.save(filename).
\* The codec rejects an empty stream, and may reject any other.  After the
\* save run_scan returns, and its locals are gone.
Crop ==
    /\ pc = "crop"
    /\ \/ /\ BytesIORead(tmpout) # <<>>
          /\ saved' = Append(saved, filename)
          /\ obs' = [obs EXCEPT !.image =
                        Some(SavedImage(filename, width, final_height[1], tmpout))]
          /\ pc' = "returned"
          /\ tmpout' = NewBytesIO
          /\ ret' = <<>>
          /\ final_height' = None
          /\ dl' = 0
          /\ UNCHANGED <<exitStatus, err>>
       \/ /\ Raise("CodecError")
          /\ UNCHANGED <<saved, obs, tmpout, ret, final_height, dl>>
    /\ UNCHANGED <<args, i, filename, page, width, height, last, sent, used,
                   resets>>
    /\ UNCHANGED <<params, frame, idle>>

----------------------------------------------------------------------------
(* The background thread of a page: self.dev.reset().                       *)

BgResetBegin(p) ==
    /\ pc # "exited"
    /\ resets[p] = "started"
    /\ resets' = [resets EXCEPT ![p] = "running"]
    /\ UNCHANGED <<args, pc, i, filename, page, width, height, tmpout, ret,
                   final_height, dl, exitStatus, err, saved, last, sent, used, obs>>
    /\ UNCHANGED <<params, frame, idle>>

BgResetEnd(p) ==
    /\ pc # "exited"
    /\ resets[p] = "running"
    /\ \E outcome \in {"done", "failed"} :
         resets' = [resets EXCEPT ![p] = outcome]
    /\ UNCHANGED <<args, pc, i, filename, page, width, height, tmpout, ret,
                   final_height, dl, exitStatus, err, saved, last, sent, used, obs>>
    /\ UNCHANGED <<params, frame, idle>>

----------------------------------------------------------------------------
Next ==
    \/ FindDevice
    \/ SetConfiguration
    \/ Dispatch
    \/ Loop
    \/ Returned
    \/ Reset
    \/ CtrlWrite
    \/ CtrlRead
    \/ ParaHeaderWrite
    \/ ParaBlockWrite
    \/ ParaRead
    \/ TrdtWrite
    \/ TrdtRead
    \/ ImgWrite
    \/ ImgRead
    \/ ReadChunkData
    \/ StartResetThread
    \/ CheckHeight
    \/ Crop
    \/ \E p \in 1..Len(resets) : BgResetBegin(p)
    \/ \E p \in 1..Len(resets) : BgResetEnd(p)

Spec == Init /\ [][Next]_vars

\* the steps of the main thread
Main ==
    \/ FindDevice
    \/ SetConfiguration
    \/ Dispatch
    \/ Loop
    \/ Returned
    \/ Reset
    \/ CtrlWrite
    \/ CtrlRead
    \/ ParaHeaderWrite
    \/ ParaBlockWrite
    \/ ParaRead
    \/ TrdtWrite
    \/ TrdtRead
    \/ ImgWrite
    \/ ImgRead
    \/ ReadChunkData
    \/ StartResetThread
    \/ CheckHeight
    \/ Crop

\* The main thread keeps running: every call on the device returns, with a
\* reply or with an error, and the statement after it is executed.
SpecFair == Spec /\ WF_vars(Main)

\* The program up to the return of the first setup_scanner: __init__ and
\* the handshake of the first page, under the same fairness.
Setup ==
    \/ FindDevice
    \/ SetConfiguration
    \/ Dispatch
    \/ Loop
    \/ Reset
    \/ CtrlWrite
    \/ CtrlRead
    \/ ParaHeaderWrite
    \/ ParaBlockWrite
    \/ ParaRead

SpecSetup == Init /\ [][Setup]_vars /\ WF_vars(Setup)

----------------------------------------------------------------------------
(* Vocabulary of the properties.                                            *)

\* the step is one of the main thread
MainStep == pc' # pc \/ used' # used \/ idle' # idle

\* the step is a successful read of the reply to a command
GotReply ==
    /\ pc' # pc
    /\ last'.op = "read" /\ last'.what = "REPLY" /\ last'.ok

\* the step is a write (or a failed attempt at one) of the command
Wrote(what) ==
    /\ MainStep
    /\ last'.op = "write" /\ last'.what = what

\* the last operation of the main thread was a successful read
LastIsRead == last.op = "read" /\ last.ok

NonZeroExit == exitStatus # None /\ exitStatus[1] # 0

\* no image was saved under the file name of the current page
NothingSaved == \A k \in 1..Len(saved) : saved[k] # filename

\* the scan loop was left on the end-of-page reply
LoopLeft == pc \in {"start_reset_thread", "check_height", "crop"}

\* the 7-digit decimal height a reply carries at marker offset +13..+20
MarkerHeight(r) ==
    ParseInt(Slice(r, Find(r, PENI) + 13, Find(r, PENI) + 20), 10)

----------------------------------------------------------------------------
(* C1: when the scan loop leaves on the end-of-page reply, and the device   *)
(* supplied for every non-final IMG reply exactly the chunk length it       *)
(* declared, the raw buffer is as long as the sum of the declared lengths,  *)
(* however the data was split across reads.                                 *)
C1_BufferLengthIsDeclaredSum ==
    (LoopLeft /\ obs.exact) => Len(tmpout.data) = obs.declared

\* a 3-byte chunk supplied in two reads
C1_Witness ==
    /\ pc = "start_reset_thread"
    /\ obs.exact
    /\ obs.declared = 3
    /\ used.data = 2
    /\ Len(tmpout.data) = 3

(* C2: a page none of whose IMG replies holds "#peni" never reaches the     *)
(* crop, saves no image and does not finish; once the end of page is        *)
(* reached it ends with the missing-height error.                           *)
C2_NoMarkerNoImage ==
    (page > 0 /\ ~obs.peni) =>
        /\ pc \notin {"crop", "returned"}
        /\ NothingSaved
        /\ Len(resets) = page =>
             \/ pc = "check_height"
             \/ pc = "exited" /\ err = "MissingHeight" /\ NonZeroExit

\* a page with chunk data and no marker, ended by the missing-height error
C2_Witness ==
    /\ ~obs.peni
    /\ err = "MissingHeight"
    /\ used.img = 3
    /\ Len(tmpout.data) > 0
    /\ obs.final = Some(ImgEnd)

(* C3: after the end-of-page reply the recorded final height is the value   *)
(* carried by the last non-final IMG reply that held "#peni" (None when     *)
(* there was none), whatever the end-of-page reply itself carries, and the  *)
(* crop of a finished page uses that height.                                *)
C3_HeightIsLastMarker ==
    /\ LoopLeft =>
         final_height = IF obs.marker = None THEN None
                        ELSE Some(MarkerHeight(obs.marker[1]))
    /\ pc = "returned" =>
         /\ obs.marker # None
         /\ obs.image # None
         /\ obs.image[1].box[4] = MarkerHeight(obs.marker[1])

\* two markers (2550, then 7), then an end-of-page reply carrying 3300
C3_Witness ==
    /\ pc = "returned"
    /\ obs.final = Some(ImgEndH)
    /\ obs.declared = 1003
    /\ obs.marker = Some(ImgThreeH7)
    /\ obs.image[1].box[4] = 7

(* C4: a successfully read reply to the control-mode command that is not    *)
(* the single byte 0x06 ends the process with HandshakeRejected and a       *)
(* non-zero status; the command is not sent again and neither the PARAx     *)
(* header nor the parameter payload is written.                             *)
HandshakeFailed ==
    /\ pc = "exited"
    /\ NonZeroExit
    /\ last = [op |-> "read", what |-> "REPLY", ok |-> TRUE, cmd |-> "CTRL"]
    /\ "PARA_HEADER" \notin sent
    /\ "PARA_BLOCK" \notin sent

C4_NonAckFailsHandshake ==
    /\ [][(pc = "ctrl_read" /\ GotReply /\ ret' # ACK)
            => (err' = "HandshakeRejected" /\ pc' = "exited")]_vars
    /\ [](err = "HandshakeRejected" => HandshakeFailed)
    /\ [][pc # "exited"]_vars

\* the device answers 0x15
C4_Witness ==
    /\ err = "HandshakeRejected"
    /\ ret = Nak
    /\ exitStatus = Some(1)

(* C5: in every page the commands are written in the order control mode,    *)
(* PARAx header, parameter payload, TRDT, IMG, none skipped: the header     *)
(* right after a read of the ACK, the payload right after the header, the   *)
(* first TRDT right after a read of a reply holding "#parOK", a further     *)
(* TRDT only after a no-paper reply, the first IMG right after a TRDT reply *)
(* without "#errADF PE"; a process that has exited takes no further step.   *)
C5_Step ==
    /\ Wrote("CTRL") => last.cmd \in {"", "CTRL"}
    /\ Wrote("PARA_HEADER") =>
         last.cmd = "CTRL" /\ LastIsRead /\ ret = ACK
    /\ Wrote("PARA_BLOCK") =>
         last = [op |-> "write", what |-> "PARA_HEADER", ok |-> TRUE,
                 cmd |-> "PARA_HEADER"]
    /\ Wrote("TRDT") =>
         /\ LastIsRead
         /\ \/ last.cmd = "PARA_BLOCK" /\ Contains(ret, PAR_OK)
            \/ last.cmd = "TRDT" /\ Contains(ret, ERR_ADF_PE)
    /\ Wrote("IMG") =>
         /\ LastIsRead
         /\ ~Contains(ret, ERR_ADF_PE)
         /\ \/ last.cmd = "TRDT"
            \/ last.cmd = "IMG" /\ StartsWith(ret, IMG_PREFIX)
    /\ pc # "exited"

C5_CommandOrder == [][C5_Step]_vars

\* a finished page that wrote every command, after a no-paper reply
C5_Witness ==
    /\ pc = "returned"
    /\ obs.waited
    /\ sent = {"CTRL", "PARA_HEADER", "PARA_BLOCK", "TRDT", "IMG"}
    /\ used.img = 3

(* C6: a reply to the parameter block without "#parOK" ends the process     *)
(* with ParamsRejected and a non-zero status; no TRDT or IMG command is     *)
(* written in that page and no image is saved for it.                       *)
ParamsFailed ==
    /\ pc = "exited"
    /\ NonZeroExit
    /\ "TRDT" \notin sent
    /\ "IMG" \notin sent
    /\ NothingSaved

C6_ParamsRejected ==
    /\ [][(pc = "para_read" /\ GotReply /\ ~Contains(ret', PAR_OK))
            => (err' = "ParamsRejected" /\ pc' = "exited")]_vars
    /\ [](err = "ParamsRejected" => ParamsFailed)
    /\ [][pc = "exited" => UNCHANGED <<sent, saved>>]_vars

\* the device answers the parameter block with an image acknowledgement
C6_Witness ==
    /\ err = "ParamsRejected"
    /\ ret = ImgNone
    /\ exitStatus = Some(255)

(* C7: a reply to an IMG request that does not start with "IMG x" ends the  *)
(* process with BadImageAck and a non-zero status, whatever else the reply  *)
(* holds; the step appends nothing to the buffer, records no height and     *)
(* saves no image.                                                          *)
C7_PrefixCheckedFirst ==
    /\ [][(pc = "img_read" /\ GotReply /\ ~StartsWith(ret', IMG_PREFIX))
            => /\ err' = "BadImageAck"
               /\ pc' = "exited"
               /\ exitStatus' # None /\ exitStatus'[1] # 0
               /\ UNCHANGED <<tmpout, final_height, saved>>]_vars
    /\ [](err = "BadImageAck" => NothingSaved)

\* a reply without the prefix that holds a height marker, after a chunk
C7_Witness ==
    /\ err = "BadImageAck"
    /\ ret = BarePeni
    /\ final_height = None
    /\ Len(tmpout.data) = 2

(* C8: a reply to TRDT holding "#errADF PE" sends the main thread back to   *)
(* the probe, whose only operation on the device is the write of TRDT; any  *)
(* other reply takes it to the first IMG request, and no TRDT is written    *)
(* after an IMG request of the same page.                                   *)
C8_PaperWait ==
    /\ [][(pc = "trdt_read" /\ GotReply)
            => pc' = IF Contains(ret', ERR_ADF_PE) THEN "trdt_write" ELSE "img_write"]_vars
    /\ [][(pc = "trdt_write" /\ MainStep) => Wrote("TRDT")]_vars
    /\ [][(pc = "img_write" /\ MainStep) => Wrote("IMG")]_vars
    /\ [][Wrote("TRDT") => "IMG" \notin sent]_vars

\* one no-paper reply, a second probe, then the first IMG request
C8_Witness ==
    /\ pc = "img_read"
    /\ obs.waited
    /\ used.img = 1

(* C9: with --no-crop a finished page is cropped to (0, 0, width, height)   *)
(* with width 2550 at 300 dpi and 5100 at 600 dpi and the height the device *)
(* reported last, and the bytes decoded for the crop are the whole of the   *)
(* raw buffer accumulated by the scan loop.                                 *)
C9_Saved ==
    (pc = "returned" /\ args.no_crop) =>
        /\ obs.image # None
        /\ obs.image[1].file = filename
        /\ obs.image[1].box = << 0, 0, IF args.res = 300 THEN 2550 ELSE 5100,
                                 MarkerHeight(obs.marker[1]) >>

C9_FullWidthCrop ==
    /\ []C9_Saved
    /\ [][(pc = "crop" /\ pc' = "returned" /\ args.no_crop)
            => obs'.image[1].data = tmpout.data]_vars

\* 300 dpi, one no-paper reply, one 1000-byte chunk with height 0002550
C9_Witness ==
    /\ pc = "returned"
    /\ args = [res |-> 300, color |-> "c", quality |-> 100,
               continuous |-> FALSE, no_crop |-> TRUE]
    /\ obs.waited
    /\ used.img = 2
    /\ used.data = 1
    /\ saved = <<1>>
    /\ obs.image = Some([file |-> 1, box |-> <<0, 0, 2550, 2550>>,
                         data |-> [k \in 1..1000 |-> "r"]])

----------------------------------------------------------------------------
(* The edge detection of the design, on the decoded page: the columns left  *)
(* blank at either side of the page.  A byte of the stream stands for a     *)
(* column, the bytes of BlankBytes for blank ones.                          *)
BlankBytes == {"a", "p"}

RECURSIVE LeadingBlank(_)
LeadingBlank(d) ==
    IF d = <<>> \/ d[1] \notin BlankBytes THEN 0
    ELSE 1 + LeadingBlank(Tail(d))

RECURSIVE TrailingBlank(_)
TrailingBlank(d) ==
    IF d = <<>> \/ d[Len(d)] \notin BlankBytes THEN 0
    ELSE 1 + TrailingBlank(SubSeq(d, 1, Len(d) - 1))

DetectEdges(d, w) == [left |-> LeadingBlank(d), right |-> w - TrailingBlank(d)]

(* C10: without --no-crop, when the edge detection finds left < right, the  *)
(* saved image is cropped to [left, right] x final height; the full width   *)
(* is used only with --no-crop or when the detection fails.                 *)
C10_AutocropBox ==
    pc = "returned" =>
        LET img == obs.image[1]
            e == DetectEdges(img.data, width)
        IN  img.box = IF ~args.no_crop /\ e.left < e.right
                      THEN <<e.left, 0, e.right, img.box[4]>>
                      ELSE <<0, 0, width, img.box[4]>>

----------------------------------------------------------------------------
\* the phases after the handshake: parameter block, paper wait, scan loop
AfterHandshake ==
    {"para_header", "para_block", "para_read", "trdt_write", "trdt_read",
     "img_write", "img_read", "data_read"}

\* the step is a write or a read of the main thread that raised a USB error
TransportError ==
    /\ MainStep
    /\ last'.op \in {"write", "read"}
    /\ ~last'.ok

(* C11: a USB error raised by a write or a read after the handshake (while  *)
(* sending the parameter block, waiting for paper or in the scan loop) ends *)
(* the process with that error and status 1: the operation is not tried     *)
(* again, the process takes no further step, so no further command is       *)
(* written, and no image is saved for the page.                             *)
C11_TransportFaults ==
    /\ [][(pc \in AfterHandshake /\ TransportError)
            => /\ pc' = "exited"
               /\ err' = "USBError"
               /\ exitStatus' = Some(1)
               /\ UNCHANGED saved]_vars
    /\ []((err = "USBError" /\ last.op \in {"write", "read"})
            => (pc = "exited" /\ ~last.ok /\ NothingSaved))
    /\ [][pc = "exited" => UNCHANGED <<last, sent, saved>>]_vars

\* a chunk-data read that raises, after bytes of the page were read
C11_Witness ==
    /\ err = "USBError"
    /\ last = [op |-> "read", what |-> "DATA", ok |-> FALSE, cmd |-> "IMG"]
    /\ Len(tmpout.data) > 0
    /\ saved = <<>>

\* the fatal errors of the taxonomy, as the process reports them
FatalErrors ==
    {"DeviceNotFound", "HandshakeRejected", "ParamsRejected", "BadImageAck",
     "MissingHeight", "USBError"}

(* C12: in one-shot mode a process that ends with a fatal error of the      *)
(* taxonomy ends with a non-zero exit status and has saved no image.        *)
C12_OneShotFatalNonZero ==
    (~args.continuous /\ pc = "exited" /\ err \in FatalErrors)
        => (NonZeroExit /\ saved = <<>>)

----------------------------------------------------------------------------
\* the valid configurations of the parameter block
ValidConfigs == [res : {300, 600}, color : {"g", "c"}, quality : 1..100]

\* hdr is "PARAx" and 7 uppercase hex digits, whose value is the length of
\* the payload pay, 928 bytes
WellFramed(hdr, pay) ==
    /\ Len(hdr) = 12
    /\ SubSeq(hdr, 1, 5) = PARAX
    /\ \A k \in 6..12 : \E j \in 1..16 : Digits[j] = hdr[k]
    /\ ParseInt(SubSeq(hdr, 6, 12), 16) = Len(pay)
    /\ Len(pay) = 928

(* C13: the header written before the parameter block is "PARAx" and 7      *)
(* uppercase hex digits whose value is the byte length of the payload       *)
(* written right after it, which is the block setup_scanner built; every    *)
(* block written, page after page, is the one the command line alone        *)
(* determines (its resolution, color and quality); and for every            *)
(* valid configuration (resolution 300 or 600, color g or c, quality 1 to   *)
(* 100) the block built is 928 bytes long and its header states that.       *)
C13_ParamsFramed ==
    /\ pc = "para_block" => frame = <<HeaderOf(params)>>
    /\ pc = "para_read" =>
         /\ Len(frame) = 2
         /\ WellFramed(frame[1], frame[2])
         /\ frame[2] = params
         /\ params = BuildParams(args, WidthOf(args.res), HeightOf(args.res))
    /\ pc = "find" =>
         \A c \in ValidConfigs :
            LET prm == BuildParams(c, WidthOf(c.res), HeightOf(c.res))
            IN  WellFramed(HeaderOf(prm), prm)

\* the block of the second page of a continuous run, written after the
\* header PARAx00003A0
C13_Witness ==
    /\ pc = "para_read"
    /\ page = 2
    /\ args.quality = 9
    /\ frame[1] = PARAX \o <<"0","0","0","0","3","A","0">>
    /\ Len(frame[2]) = 928

----------------------------------------------------------------------------
\* the scan loop of the page was left on the end-of-page reply and the
\* statement after it, which starts the reset thread, was executed
ResetThreadDue ==
    \/ pc \in {"check_height", "crop", "returned", "loop"}
    \/ pc = "exited" /\ err \in {"MissingHeight", "CodecError", "none"}

(* C14 as stated: in every page the command "FIN x0000000" is written       *)
(* before the control-mode command, and again before the page is finished.  *)
C14_FinWrittenTwice ==
    ("CTRL" \in sent \/ pc = "returned") => "FIN" \in sent

(* C14, amended: no FIN command is written; the first operation of every    *)
(* page on the device is a synchronous reset, the control-mode command is   *)
(* first written right after it, with no read in between, and a thread that *)
(* resets the device is started once for every page that read the           *)
(* end-of-page reply, right after that reply and before the height check.   *)
C14_ResetTwice ==
    /\ [](sent \subseteq {"CTRL", "PARA_HEADER", "PARA_BLOCK", "TRDT", "IMG"})
    /\ [][(pc = "reset" /\ MainStep)
            => (last = NoEvent /\ last'.op = "reset")]_vars
    /\ [][(pc = "ctrl_write" /\ MainStep) => Wrote("CTRL")]_vars
    /\ [][Wrote("CTRL")
            => \/ last.cmd = "CTRL"
               \/ last = [op |-> "reset", what |-> "RESET", ok |-> TRUE,
                          cmd |-> ""]]_vars
    /\ [](Len(resets) = IF ResetThreadDue THEN page
                        ELSE IF page = 0 THEN 0 ELSE page - 1)
    /\ [][Len(resets') # Len(resets)
            => /\ pc = "start_reset_thread" /\ pc' = "check_height"
               /\ LastIsRead /\ last.cmd = "IMG"
               /\ resets' = Append(resets, "started")]_vars

\* the second page of a continuous run, finished: two resets on threads
C14_Witness ==
    /\ pc = "returned"
    /\ page = 2
    /\ Len(resets) = 2
    /\ sent = {"CTRL", "PARA_HEADER", "PARA_BLOCK", "TRDT", "IMG"}

----------------------------------------------------------------------------
RetryLoop == {"ctrl_write", "ctrl_read"}

(* C15: a USB error raised by the write or by the read of the control-mode  *)
(* command sends the main thread back to the write of that command; the     *)
(* retry loop is left only by a reply that was read, to the parameter block *)
(* on 0x06 and to the end of the process on any other reply; the PARAx      *)
(* header is only written right after the read of 0x06; and when the USB    *)
(* errors stop, the handshake ends: the retry loop is always left.          *)
C15_HandshakeRetry ==
    /\ [][(pc \in RetryLoop /\ TransportError)
            => (pc' = "ctrl_write" /\ UNCHANGED <<exitStatus, err>>)]_vars
    /\ [][(pc = "ctrl_write" /\ MainStep) => Wrote("CTRL")]_vars
    /\ [][(pc \in RetryLoop /\ pc' \notin RetryLoop)
            => /\ pc = "ctrl_read"
               /\ GotReply
               /\ pc' = IF ret' = ACK THEN "para_header" ELSE "exited"]_vars
    /\ [][Wrote("PARA_HEADER")
            => /\ last = [op |-> "read", what |-> "REPLY", ok |-> TRUE,
                          cmd |-> "CTRL"]
               /\ ret = ACK]_vars
    /\ (pc \in RetryLoop) ~> (pc \in {"para_header", "exited"})

\* the command written a third time, after two USB errors
C15_Witness ==
    /\ pc = "ctrl_read"
    /\ used.ctrl = 2
    /\ last = [op |-> "write", what |-> "CTRL", ok |-> TRUE, cmd |-> "CTRL"]

----------------------------------------------------------------------------
Commands == {"CTRL", "PARA_HEADER", "PARA_BLOCK", "TRDT", "IMG"}

\* the main thread is at a self.read()
AtRead == pc \in {"ctrl_read", "para_read", "trdt_read", "img_read", "data_read"}

\* the step is a read (or a failed attempt at one) of a reply or of data
ReadStep(what) ==
    /\ AtRead /\ MainStep
    /\ last'.op = "read" /\ last'.what = what

(* C16 as stated: every command written is answered by a read before the    *)
(* next command is written, so no command is written right after another.   *)
C16_EveryCommandAnswered ==
    [][(\E c \in Commands : Wrote(c)) => ~(last.op = "write" /\ last.ok)]_vars

C16_Step ==
    /\ ReadStep("REPLY") =>
         /\ last.op = "write" /\ last.ok
         /\ last.what \in {"CTRL", "PARA_BLOCK", "TRDT", "IMG"}
    /\ ReadStep("DATA") =>
         /\ LastIsRead
         /\ last.cmd = "IMG"
         /\ dl > 0
    /\ Wrote("PARA_BLOCK") =>
         last = [op |-> "write", what |-> "PARA_HEADER", ok |-> TRUE,
                 cmd |-> "PARA_HEADER"]
    /\ (Wrote("PARA_HEADER") \/ Wrote("TRDT") \/ Wrote("IMG")) => LastIsRead
    /\ Wrote("CTRL") =>
         \/ last.op = "reset" /\ last.ok
         \/ last.cmd = "CTRL" /\ ~last.ok

(* C16, amended: the reply of a command is read once, right after the       *)
(* command was written, and the next command is written after a read, with  *)
(* two exceptions: the parameter payload is written right after the PARAx   *)
(* header, and one reply is read for both; and the control-mode command is  *)
(* written again after a write or a read of it that raised a USB error.     *)
(* The other reads are the chunk-data reads, which follow a read after an   *)
(* IMG request while bytes of the declared length remain.                   *)
C16_HalfDuplex == [][C16_Step]_vars

\* a page whose block was written and whose chunk took two data reads
C16_Witness ==
    /\ pc = "img_write"
    /\ last = [op |-> "read", what |-> "DATA", ok |-> TRUE, cmd |-> "IMG"]
    /\ used.data = 2
    /\ "PARA_BLOCK" \in sent

----------------------------------------------------------------------------
\* the background resets of the pages before this one
EarlierResets == {p \in 1..Len(resets) : p < page}

\* the thread has returned from self.dev.reset(), with or without an error
Completed(p) == resets[p] \in {"done", "failed"}

(* C17: once a page has performed its first operation on the device (its   *)
(* reset, a write or a read), the background reset of every earlier page    *)
(* has completed, so the handle is never used by two activities at once.    *)
C17_ResetDoneBeforeNextPage ==
    (page >= 2 /\ last.op # "none") => \A p \in EarlierResets : Completed(p)

----------------------------------------------------------------------------
\* the main thread stands before a loop iteration the model does not take
AtBound ==
    \/ pc = "loop" /\ page >= MaxPages
    \/ pc = "trdt_write" /\ used.probes >= MaxProbes
    \/ pc = "img_write" /\ used.img >= MaxImg

\* a step of one background thread: it changes the state of that thread only
BgStep ==
    /\ resets' # resets
    /\ Len(resets') = Len(resets)

(* C18: the reset after the end-of-page reply is fire-and-forget.  The      *)
(* thread of a page is started once, by the statement after the scan loop,  *)
(* and no thread was started for the page before; the main thread never     *)
(* changes or waits for the state of a thread: whatever the threads have    *)
(* done, its next statement (the height check, the crop and save, the       *)
(* return, the next page's reset and handshake) can be executed; and a step *)
(* of a thread, its failure included, changes nothing the main thread       *)
(* reads, and ends neither the page nor the process.                        *)
C18_FireAndForget ==
    /\ [][(pc = "img_read" /\ pc' = "start_reset_thread")
            => (Len(resets) = page - 1 /\ Contains(ret', ERR_ADF_PE))]_vars
    /\ [][(pc = "start_reset_thread" /\ pc' # pc)
            => (Len(resets') = page /\ resets'[page] = "started")]_vars
    /\ [][MainStep
            => /\ SubSeq(resets', 1, Len(resets)) = resets
               /\ pc # "start_reset_thread" => resets' = resets]_vars
    /\ []((pc # "exited" /\ ~AtBound) => ENABLED Main)
    /\ [][BgStep
            => UNCHANGED <<args, pc, i, filename, page, width, height, tmpout,
                           ret, final_height, dl, exitStatus, err, saved, last,
                           sent, used, params, frame, idle, obs>>]_vars

\* two pages saved, the second after a handshake on a device whose first
\* background reset failed, and before its own background reset has run
C18_Witness ==
    /\ pc = "returned"
    /\ page = 2
    /\ Len(saved) = 2
    /\ resets = <<"failed", "started">>

----------------------------------------------------------------------------
\* the main thread stands before the first IMG request of the page
FirstImg == pc = "img_write" /\ "IMG" \notin sent

\* the bytes the device supplies as chunk data of a page
PageBytes(p) == {FillBytes[(p % 2) + 1][k] : k \in 1..3}

(* C19: every page is a fresh session.  The commands of the handshake are   *)
(* written again in every page: the page passes the control-mode command    *)
(* only on a reply 0x06 read in this page, the parameter block only on a    *)
(* reply holding "#parOK" read in this page, and the probe only on a TRDT   *)
(* reply of this page without "#errADF PE"; before its first IMG request    *)
(* the page has no final height and an empty buffer; a page after the first *)
(* whose replies hold no height marker ends with MissingHeight and saves    *)
(* nothing, though the page before it was saved with a height; and the      *)
(* image of a page holds only bytes the device supplied in that page.       *)
C19_FreshSession ==
    /\ [](FirstImg =>
            /\ {"CTRL", "PARA_HEADER", "PARA_BLOCK", "TRDT"} \subseteq sent
            /\ LastIsRead /\ last.cmd = "TRDT"
            /\ ~Contains(ret, ERR_ADF_PE)
            /\ final_height = None
            /\ tmpout = NewBytesIO)
    /\ [][(pc = "ctrl_read" /\ pc' = "para_header")
            => (ret' = ACK /\ last.what = "CTRL" /\ last.op = "write")]_vars
    /\ [][(pc = "para_read" /\ pc' = "trdt_write")
            => /\ Contains(ret', PAR_OK)
               /\ last.what = "PARA_BLOCK" /\ last.op = "write"
               /\ "CTRL" \in sent
               /\ tmpout' = NewBytesIO]_vars
    /\ [][(pc = "trdt_read" /\ pc' = "img_write")
            => /\ ~Contains(ret', ERR_ADF_PE)
               /\ last.what = "TRDT" /\ last.op = "write"
               /\ "PARA_BLOCK" \in sent
               /\ final_height' = None]_vars
    /\ []((page >= 2 /\ obs.marker = None) =>
            /\ Len(saved) = page - 1
            /\ pc \notin {"crop", "returned", "loop"}
            /\ LoopLeft => final_height = None
            /\ Len(resets) = page =>
                 \/ pc = "check_height"
                 \/ pc = "exited" /\ err = "MissingHeight" /\ NonZeroExit)
    /\ [][(pc = "crop" /\ pc' = "returned")
            => LET data == obs'.image[1].data IN
               /\ data = tmpout.data
               /\ {data[k] : k \in 1..Len(data)} \subseteq PageBytes(page)
               /\ {data[k] : k \in 1..Len(data)} \cap PageBytes(page - 1) = {}]_vars

\* the first page was saved with a height; the second, whose replies held
\* chunk data and no height marker, ended with the missing-height error
C19_Witness ==
    /\ page = 2
    /\ Len(saved) = 1
    /\ obs.marker = None
    /\ Len(tmpout.data) > 0
    /\ pc = "exited"
    /\ err = "MissingHeight"

----------------------------------------------------------------------------
(* C20, the inner loop: in a one-shot scan the loop that reads the data of  *)
(* a chunk of declared length L > 0 is left after finitely many reads,      *)
(* whatever the device answers to them: fewer bytes than remain, more       *)
(* bytes than remain, or no bytes.                                          *)
C20_ChunkLoopEnds ==
    (~args.continuous /\ pc = "data_read") ~> (pc # "data_read")

=============================================================================
